---- MODULE Spec2Model ----
(***************************************************************************)
(* Model of src/index.tsx: the holiday-tree scene.                         *)
(*                                                                         *)
(*   - randomInSphere / randomOnTree : the point generators                *)
(*   - FoliageSystem   : particle pool (useMemo), progress driver          *)
(*                       (useFrame) and the foliage vertex shader          *)
(*   - OrnamentSystem  : boxes and blue spheres (useMemo) and their        *)
(*                       per-frame lerp (useFrame)                         *)
(*   - App             : the isTreeForm toggle                             *)
(*                                                                         *)
(* Numbers.  Reals are fixed-point integers in units of 1/FP (hundredths); *)
(* a product or quotient is rounded to the nearest unit, as a floating     *)
(* point operation rounds to the nearest representable value.  NaN is a    *)
(* distinguished value that every arithmetic operation propagates.         *)
(* Ornament positions are kept in units of 1/(FP * OrnScale) so that the   *)
(* lerps of the first MaxFrames frames are exact.                          *)
(***************************************************************************)
EXTENDS Integers, Sequences, FiniteSets, TLC

VARIABLES
    isTreeForm,   \* App: useState(false)
    meshRef,      \* FoliageSystem: meshRef.current is attached
    progress,     \* FoliageSystem: progress.current
    uProgress,    \* shader uniform uProgress
    uTime,        \* shader uniform uTime
    foliage,      \* FoliageSystem: the attribute arrays
    boxes,        \* OrnamentSystem: boxes
    blueSpheres,  \* OrnamentSystem: blueSpheres
    finalPos,     \* vertex shader: finalPos of every particle, last draw
    localProg,    \* vertex shader: localProgress of every particle, last draw
    settledAt,    \* per particle: uProgress of the first draw with localProgress = 1
    startedAt,    \* per particle: uProgress of the first draw with localProgress > 0
    frames,       \* number of frames run so far
    lastDelta,    \* clock delta of the last frame (sixtieths of a second)
    scenario,     \* history of the toggles: how the current target was reached
    ramp,         \* history: progress was 0 when the target became 1, one dt since
    cfg,          \* the configuration constants
    rng,          \* state of Math.random
    pc,           \* start-up: which useMemo runs next
    outcome,      \* start-up: how generation ended
    lastCall,     \* arguments of the last direct randomOnTree call
    lastPoint     \* its result

vars == <<isTreeForm, meshRef, progress, uProgress, uTime, foliage, boxes,
          blueSpheres, finalPos, localProg, settledAt, startedAt, frames,
          lastDelta, scenario, ramp, cfg, rng, pc, outcome, lastCall, lastPoint>>

-----------------------------------------------------------------------------
(* Bounds of the model *)

MaxFrames == 3
NumSeeds == 4
NParticles == 2
NBoxes == 1
NBlue == 1

-----------------------------------------------------------------------------
(* Fixed-point arithmetic *)

FP == 10 * 10

\* the encoding of NaN: a value no finite computation of the model produces
NaN == 0 - (1000 * 1000 * 1000)

IsNaN(a) == a = NaN

\* n / d rounded to the nearest integer, d > 0
RDiv(n, d) == (2 * n + d) \div (2 * d)

Abs(a) == IF a < 0 THEN 0 - a ELSE a

Clamp(x, lo, hi) == IF x < lo THEN lo ELSE IF x > hi THEN hi ELSE x

NAdd(a, b) == IF IsNaN(a) \/ IsNaN(b) THEN NaN ELSE a + b

NSub(a, b) == IF IsNaN(a) \/ IsNaN(b) THEN NaN ELSE a - b

NMul(a, b) == IF IsNaN(a) \/ IsNaN(b) THEN NaN ELSE RDiv(a * b, FP)

\* a / b; 0 / 0 is NaN, x / 0 is not needed by the program (y is 0 when height is 0)
NDiv(a, b) ==
    IF IsNaN(a) \/ IsNaN(b) THEN NaN
    ELSE IF b = 0 THEN NaN
    ELSE IF b > 0 THEN RDiv(a * FP, b)
    ELSE RDiv((0 - a) * FP, 0 - b)

-----------------------------------------------------------------------------
(* Math library *)

PI == 314

\* Math.sin for an angle in radians: range reduction, then Bhaskara's
\* rational approximation on [0, pi], rounded to 1/FP
SinHalf(x) == RDiv(FP * 16 * x * (PI - x), 5 * PI * PI - 4 * x * (PI - x))

Sin(a) ==
    IF IsNaN(a) THEN NaN
    ELSE LET x == a % (2 * PI)
         IN  IF x <= PI THEN SinHalf(x) ELSE 0 - SinHalf(x - PI)

Cos(a) == IF IsNaN(a) THEN NaN ELSE Sin(a + PI \div 2)

\* Math.acos: the angle in [0, pi] whose cosine is c (Cos is decreasing there)
Acos(c) ==
    CHOOSE p \in 0..PI : /\ Cos(p) <= c
                         /\ (p = 0 \/ Cos(p - 1) > c)

\* Math.cbrt on [0, 1)
Cbrt(w) ==
    CHOOSE r \in 0..FP : /\ r * r * r <= w * FP * FP
                         /\ (r + 1) * (r + 1) * (r + 1) > w * FP * FP

RECURSIVE SqrtSearch(_, _, _)
SqrtSearch(n, lo, hi) ==
    IF lo >= hi THEN lo
    ELSE LET mid == (lo + hi + 1) \div 2
         IN  IF mid * mid <= n THEN SqrtSearch(n, mid, hi)
             ELSE SqrtSearch(n, lo, mid - 1)

\* integer square root
ISqrt(n) == SqrtSearch(n, 0, 46340)

\* x^5 for x in [0, 1], in units of 1/FP
Pow5(r) == (((r * r * r) \div FP) * (r * r)) \div (FP * FP * FP)

Root5(p) ==
    CHOOSE r \in 0..FP : /\ Pow5(r) <= p
                         /\ (r = FP \/ Pow5(r + 1) > p)

\* Math.pow(p, 1.2) = p * p^(1/5) for p in [0, 1]; NaN for a negative base
Pow12(p) ==
    IF IsNaN(p) THEN NaN
    ELSE IF p < 0 THEN NaN
    ELSE RDiv(p * Root5(p), FP)

-----------------------------------------------------------------------------
(* Math.random: an additive congruential generator over the hundredths of
   [0, 1); the stride is coprime to FP, so every value is drawn *)

RandStride == 31

NextRand(s) == (s + RandStride) % FP

\* the k-th value Math.random returns from state s (k >= 1)
Draw(s, k) == (s + RandStride * k) % FP

\* the state after k calls
Advance(s, k) == (s + RandStride * k) % FP

-----------------------------------------------------------------------------
(* UTILS *)

\* randomInSphere(radius) with the three values Math.random returns
randomInSphere(radius, u, v, w) ==
    LET theta  == RDiv(2 * PI * u, FP)
        phi    == Acos(2 * v - FP)
        r      == NMul(Cbrt(w), radius)
        sinPhi == Sin(phi)
    IN  << NMul(NMul(r, sinPhi), Cos(theta)),
           NMul(NMul(r, sinPhi), Sin(theta)),
           NMul(r, Cos(phi)) >>

\* randomOnTree that scales the random height by maxH instead of range
randomOnTree_fullRange(height, radiusBase, yMinRatio, yMaxRatio, u1, u2) ==
    LET minH       == NMul(height, yMinRatio)
        maxH       == NMul(height, yMaxRatio)
        y          == NMul(u1, maxH) + minH
        percentage == NSub(FP, NDiv(Clamp(y, 0, Abs(height)), height))
        r          == NMul(radiusBase, Pow12(percentage))
        theta      == RDiv(u2 * 2 * PI, FP)
        layerNoise == NMul(Sin(3 * y), 15)
    IN  << NMul(NAdd(r, layerNoise), Cos(theta)),
           y - RDiv(height, 2),
           NMul(NAdd(r, layerNoise), Sin(theta)) >>

\* randomOnTree(height, radiusBase, yMinRatio, yMaxRatio) with the two
\* values Math.random returns
randomOnTree(height, radiusBase, yMinRatio, yMaxRatio, u1, u2) ==
    LET minH       == NMul(height, yMinRatio)
        maxH       == NMul(height, yMaxRatio)
        range      == maxH - minH
        y          == NMul(u1, range) + minH
        percentage == NSub(FP, NDiv(y, height))
        r          == NMul(radiusBase, Pow12(percentage))
        theta      == RDiv(u2 * 2 * PI, FP)
        layerNoise == NMul(Sin(3 * y), 15)
    IN  << NMul(NAdd(r, layerNoise), Cos(theta)),
           y - RDiv(height, 2),
           NMul(NAdd(r, layerNoise), Sin(theta)) >>

-----------------------------------------------------------------------------
(* CONFIGURATION *)

TREE_HEIGHT == 12 * FP

TREE_RADIUS == (9 * FP) \div 2

\* the pools of the model are NParticles, NBoxes and NBlue long
PARTICLE_COUNT == NParticles

BOX_COUNT == NBoxes

BLUE_SPHERE_COUNT == NBlue

ProgramConfig ==
    [height |-> TREE_HEIGHT, radius |-> TREE_RADIUS, particleCount |-> PARTICLE_COUNT,
     boxCount |-> BOX_COUNT, blueCount |-> BLUE_SPHERE_COUNT]

-----------------------------------------------------------------------------
(* Ornament arithmetic: speed in units of 1/SpeedDen, currentPos in units of
   1/(FP * OrnScale) *)

SpeedDen == 2 ^ 5

OrnScale == SpeedDen ^ MaxFrames

VecScale(v, k) == << v[1] * k, v[2] * k, v[3] * k >>

-----------------------------------------------------------------------------
(* FoliageSystem: useMemo, "Generate data once" *)

\* Color Distribution
ColorType(rand) ==
    IF rand > 95 THEN 3
    ELSE IF rand > 80 THEN 2
    ELSE IF rand > 50 THEN 1
    ELSE 0

\* the loop body for particle i; it calls Math.random 8 times
FoliageParticle(c, s, i) ==
    LET k        == 8 * (i - 1)
        treeP    == randomOnTree(c.height, c.radius, 0, FP, Draw(s, k + 1), Draw(s, k + 2))
        scatterP == randomInSphere(15 * FP, Draw(s, k + 3), Draw(s, k + 4), Draw(s, k + 5))
    IN  [tPos |-> treeP, sPos |-> scatterP, p |-> scatterP,
         r |-> Draw(s, k + 6),
         s |-> RDiv(Draw(s, k + 7) * 50, FP) + 50,
         cType |-> ColorType(Draw(s, k + 8))]

\* the arrays useMemo returns, for configuration c and Math.random state s
GenFoliage(c, s) ==
    LET n == c.particleCount
    IN  [positions  |-> [i \in 1..n |-> FoliageParticle(c, s, i).p],
         scatterPos |-> [i \in 1..n |-> FoliageParticle(c, s, i).sPos],
         treePos    |-> [i \in 1..n |-> FoliageParticle(c, s, i).tPos],
         randoms    |-> [i \in 1..n |-> FoliageParticle(c, s, i).r],
         sizes      |-> [i \in 1..n |-> FoliageParticle(c, s, i).s],
         colorTypes |-> [i \in 1..n |-> FoliageParticle(c, s, i).cType]]

NoFoliage ==
    [positions |-> <<>>, scatterPos |-> <<>>, treePos |-> <<>>,
     randoms |-> <<>>, sizes |-> <<>>, colorTypes |-> <<>>]

-----------------------------------------------------------------------------
(* OrnamentSystem: useMemo for boxes and blueSpheres *)

\* speed: Math.random() * 0.05 + 0.02, in units of 1/SpeedDen
Speed(d) == RDiv((5 * d + 2 * FP) * SpeedDen, FP * FP)

\* item i of boxes; 12 calls of Math.random
BoxItem(c, s, i) ==
    LET k        == 12 * (i - 1)
        treeP    == randomOnTree(c.height - 50, c.radius - 80, 0, FP,
                                 Draw(s, k + 1), Draw(s, k + 2))
        scatterP == randomInSphere(12 * FP, Draw(s, k + 3), Draw(s, k + 4), Draw(s, k + 5))
        scale    == RDiv(Draw(s, k + 6) * 8, FP) + 20
        r        == Draw(s, k + 7)
    IN  [treePos |-> treeP, scatterPos |-> scatterP,
         currentPos |-> VecScale(scatterP, OrnScale),
         scale |-> scale,
         speed |-> Speed(Draw(s, k + 8)),
         color |-> IF r < 20 THEN "C_GOLD" ELSE IF r < 60 THEN "C_RED" ELSE "C_WHITE"]

GenBoxes(c, s) == [i \in 1..c.boxCount |-> BoxItem(c, s, i)]

\* item i of blueSpheres; 12 calls of Math.random
BlueItem(c, s, i) ==
    LET k        == 12 * (i - 1)
        treeP    == randomOnTree(c.height, c.radius - 50, 0, 40,
                                 Draw(s, k + 1), Draw(s, k + 2))
        scatterP == randomInSphere(12 * FP, Draw(s, k + 3), Draw(s, k + 4), Draw(s, k + 5))
        scale    == RDiv(Draw(s, k + 6) * 8, FP) + 12
    IN  [treePos |-> treeP, scatterPos |-> scatterP,
         currentPos |-> VecScale(scatterP, OrnScale),
         scale |-> scale,
         speed |-> Speed(Draw(s, k + 7)),
         color |-> IF Draw(s, k + 9) > 60 THEN "C_BLUE" ELSE "C_ICE_BLUE"]

GenBlueSpheres(c, s) == [i \in 1..c.blueCount |-> BlueItem(c, s, i)]

-----------------------------------------------------------------------------
(* SHADERS: foliageVertexShader *)

\* smoothstep without its clamp: the bare Hermite polynomial
Smoothstep_unclamped(x) == RDiv(x * x * (3 * FP - 2 * x), FP * FP)

\* GLSL smoothstep(0.0, 1.0, x)
Smoothstep(x) ==
    LET c == Clamp(x, 0, FP)
    IN  RDiv(c * c * (3 * FP - 2 * c), FP * FP)

\* Easing function
easeOutCubic(x) == FP - RDiv((FP - x) * (FP - x) * (FP - x), FP * FP)

\* the delay with the sign of the height term flipped
Delay_flipped(y) == 50 - NMul(y, 5)

\* float delay = aTreePos.y * 0.05 + 0.5
Delay(y) == NMul(y, 5) + 50

\* float localProgress = smoothstep(0.0, 1.0, (t * (1.0 + delay)) - (delay * (1.0 - t)))
LocalProgress(y, t) ==
    LET delay == Delay(y)
    IN  Smoothstep(NMul(t, FP + delay) - NMul(delay, FP - t))

\* GLSL mix(a, b, w) = a * (1 - w) + b * w
Mix(a, b, w) == [k \in 1..3 |-> NAdd(NMul(a[k], FP - w), NMul(b[k], w))]

Length(v) == ISqrt(v[1] * v[1] + v[2] * v[2] + v[3] * v[3])

\* what normalize may return for the zero vector, which GLSL leaves undefined
UndefinedVec == { <<0, 0, 0>>, <<NaN, NaN, NaN>> }

\* GLSL normalize(v); und is the result the GPU produces for a zero vector
Normalize(v, und) ==
    IF \E k \in 1..3 : IsNaN(v[k]) THEN <<NaN, NaN, NaN>>
    ELSE IF Length(v) = 0 THEN und
    ELSE [k \in 1..3 |-> RDiv(v[k] * FP, Length(v))]

\* float breath = sin(uTime * 2.0 + aRandom * 10.0) * 0.05
Breath(time, aRandom) == NMul(Sin(2 * time + 10 * aRandom), 5)

\* vec3 finalPos of main(): the mix, then the breathing effect
VertexPos(aScatterPos, aTreePos, aRandom, time, prog, und) ==
    LET mixed == Mix(aScatterPos, aTreePos, easeOutCubic(LocalProgress(aTreePos[2], prog)))
        n     == Normalize(mixed, und)
    IN  IF prog > 80
        THEN [k \in 1..3 |-> NAdd(mixed[k], NMul(n[k], Breath(time, aRandom)))]
        ELSE mixed

\* one draw call: the vertex shader runs for every particle of the pool
DrawFoliage(fol, time, prog, und) ==
    [i \in DOMAIN fol.treePos |->
        VertexPos(fol.scatterPos[i], fol.treePos[i], fol.randoms[i], time, prog, und)]

DrawLocal(fol, prog) ==
    [i \in DOMAIN fol.treePos |-> LocalProgress(fol.treePos[i][2], prog)]

-----------------------------------------------------------------------------
(* The frame clock: delta in sixtieths of a second *)

ClockHz == 6 * 10

\* the deltas the clock delivers: 1/30 s, 1/3 s, 2/3 s and, after a
\* stall of the render loop, 1 s
Deltas == {2, 20, 40, 60}

\* delta * 1.5
LerpFactor(delta) == RDiv(delta * 15 * FP, 10 * ClockHz)

\* lerp with its weights swapped
Lerp_swapped(x, y, t) == NMul(FP - t, y) + NMul(t, x)

\* THREE.MathUtils.lerp(x, y, t) = (1 - t) * x + t * y
Lerp(x, y, t) == NMul(FP - t, x) + NMul(t, y)

\* a lerp that adds v * alpha instead of (v - this) * alpha
VecLerp_noDiff(cur, v, alpha) ==
    [k \in 1..3 |-> cur[k] + ((v[k] * OrnScale) \div SpeedDen) * alpha]

\* THREE.Vector3.lerp(v, alpha): this += (v - this) * alpha, for a position
\* in units of 1/(FP * OrnScale) and alpha in units of 1/SpeedDen
VecLerp(cur, v, alpha) ==
    [k \in 1..3 |-> cur[k] + ((v[k] * OrnScale - cur[k]) \div SpeedDen) * alpha]

\* the forEach when currentPos is scatterP itself instead of scatterP.clone():
\* the lerp then moves scatterPos as well
LerpOrnaments_aliased(items, tree) ==
    [i \in DOMAIN items |->
        LET o      == items[i]
            target == IF tree THEN o.treePos ELSE o.scatterPos
            moved  == VecLerp(o.currentPos, target, o.speed)
        IN  [o EXCEPT !.currentPos = moved,
                      !.scatterPos = [k \in 1..3 |-> RDiv(moved[k], OrnScale)]]]

\* boxes.forEach / blueSpheres.forEach of OrnamentSystem's useFrame
LerpOrnaments(items, tree) ==
    [i \in DOMAIN items |->
        LET o      == items[i]
            target == IF tree THEN o.treePos ELSE o.scatterPos
        IN  [o EXCEPT !.currentPos = VecLerp(o.currentPos, target, o.speed)]]

-----------------------------------------------------------------------------
(* The state after the first render: the three useMemo have run *)

Seeds == { (27 * s) % FP : s \in 0..(NumSeeds - 1) }

NoneYet(fol) == [i \in DOMAIN fol.treePos |-> 0 - 1]

Mounted(c, sd) ==
    /\ cfg = c
    /\ foliage = GenFoliage(c, sd)
    /\ boxes = GenBoxes(c, Advance(sd, 8 * c.particleCount))
    /\ blueSpheres = GenBlueSpheres(c, Advance(sd, 8 * c.particleCount + 12 * c.boxCount))
    /\ rng = Advance(sd, 8 * c.particleCount + 12 * c.boxCount + 12 * c.blueCount)
    /\ pc = "done"
    /\ outcome = "ok"
    /\ meshRef = TRUE

Idle ==
    /\ isTreeForm = FALSE
    /\ progress = 0
    /\ uProgress = 0
    /\ uTime = 0
    /\ finalPos = foliage.positions
    /\ localProg = [i \in DOMAIN foliage.treePos |-> 0]
    /\ settledAt = NoneYet(foliage)
    /\ startedAt = NoneYet(foliage)
    /\ frames = 0
    /\ lastDelta = 0
    /\ scenario = "initial"
    /\ ramp = [on |-> FALSE, dt |-> 0]
    /\ lastCall = <<>>
    /\ lastPoint = <<>>

Init ==
    /\ \E sd \in Seeds : Mounted(ProgramConfig, sd)
    /\ Idle

-----------------------------------------------------------------------------
(* App: onClick={() => setIsTreeForm(!isTreeForm)} *)

Toggle ==
    /\ pc = "done"
    /\ isTreeForm' = ~isTreeForm
    /\ scenario' = IF scenario = "initial" THEN "forming"
                   ELSE IF scenario = "forming" /\ progress # FP THEN "reversing"
                   ELSE "other"
    /\ ramp' = [on |-> (progress = 0 /\ ~isTreeForm), dt |-> 0]
    /\ UNCHANGED <<meshRef, progress, uProgress, uTime, foliage, boxes, blueSpheres,
                   finalPos, localProg, settledAt, startedAt, frames, lastDelta,
                   cfg, rng, pc, outcome, lastCall, lastPoint>>

(* One frame of the render loop with clock delta `delta`: FoliageSystem's
   useFrame, OrnamentSystem's useFrame, then the draw of the foliage points *)
Frame(delta, und) ==
    /\ pc = "done"
    /\ frames < MaxFrames
    /\ LET target == IF isTreeForm THEN FP ELSE 0
           p      == IF meshRef THEN Lerp(progress, target, LerpFactor(delta)) ELSE progress
           t      == uTime + RDiv(delta * FP, ClockHz)
       IN  /\ progress' = p
           /\ uProgress' = IF meshRef THEN p ELSE uProgress
           /\ uTime' = IF meshRef THEN t ELSE uTime
           /\ finalPos' = DrawFoliage(foliage, uTime', uProgress', und)
           /\ localProg' = DrawLocal(foliage, uProgress')
    /\ boxes' = LerpOrnaments(boxes, isTreeForm)
    /\ blueSpheres' = LerpOrnaments(blueSpheres, isTreeForm)
    /\ frames' = frames + 1
    /\ lastDelta' = delta
    /\ ramp' = IF ramp.on /\ ramp.dt \in {0, delta}
               THEN [on |-> TRUE, dt |-> delta]
               ELSE [on |-> FALSE, dt |-> 0]
    /\ UNCHANGED <<isTreeForm, meshRef, foliage, settledAt, startedAt, scenario,
                   cfg, rng, pc, outcome, lastCall, lastPoint>>

Tick == \E delta \in Deltas, und \in UndefinedVec : Frame(delta, und)

Next == Toggle \/ Tick

Spec == Init /\ [][Next]_vars

-----------------------------------------------------------------------------
(* The vertex shader as a function of uProgress: the uniform is swept upwards
   from 0 to 1 over the generated pool (a step of 0 draws again at the same
   progress), at any clock time *)

ProgressSteps == {0, 5, 10}

TimeValues == {0, 40, 79, 236}

\* the uProgress at which particle i was first seen with `reached`
FirstSeen(at, reached, prog) ==
    [i \in DOMAIN at |-> IF at[i] < 0 /\ reached[i] THEN prog ELSE at[i]]

ShaderDraw(step, time, und) ==
    /\ uProgress + step <= FP
    /\ uProgress' = uProgress + step
    /\ uTime' = time
    /\ finalPos' = DrawFoliage(foliage, time, uProgress', und)
    /\ localProg' = DrawLocal(foliage, uProgress')
    /\ settledAt' = FirstSeen(settledAt, [i \in DOMAIN settledAt |-> localProg'[i] = FP], uProgress')
    /\ startedAt' = FirstSeen(startedAt, [i \in DOMAIN startedAt |-> localProg'[i] > 0], uProgress')
    /\ UNCHANGED <<isTreeForm, meshRef, progress, foliage, boxes, blueSpheres, frames,
                   lastDelta, scenario, ramp, cfg, rng, pc, outcome, lastCall, lastPoint>>

ShaderNext ==
    \E step \in ProgressSteps, time \in TimeValues, und \in UndefinedVec :
        ShaderDraw(step, time, und)

SpecShader == Init /\ [][ShaderNext]_vars

-----------------------------------------------------------------------------
(* Start-up under any configuration: the three useMemo run in render order;
   a negative array length makes the first one throw *)

Configs ==
    [height : {TREE_HEIGHT, 0, 0 - TREE_HEIGHT},
     radius : {TREE_RADIUS, 0 - TREE_RADIUS},
     particleCount : {PARTICLE_COUNT, 0, 0 - 1},
     boxCount : {BOX_COUNT},
     blueCount : {BLUE_SPHERE_COUNT}]

GenInit ==
    /\ cfg \in Configs
    /\ rng \in Seeds
    /\ pc = "foliage"
    /\ outcome = "pending"
    /\ meshRef = FALSE
    /\ foliage = NoFoliage
    /\ boxes = <<>>
    /\ blueSpheres = <<>>
    /\ Idle

GenUnchanged ==
    UNCHANGED <<isTreeForm, meshRef, progress, uProgress, uTime, finalPos, localProg,
                settledAt, startedAt, frames, lastDelta, scenario, ramp, cfg>>

\* FoliageSystem's useMemo; new Float32Array(n) throws a RangeError for n < 0
GenerateFoliage ==
    /\ pc = "foliage"
    /\ IF cfg.particleCount < 0
       THEN /\ pc' = "failed"
            /\ outcome' = "RangeError"
            /\ UNCHANGED <<foliage, rng>>
       ELSE /\ foliage' = GenFoliage(cfg, rng)
            /\ rng' = Advance(rng, 8 * cfg.particleCount)
            /\ pc' = "boxes"
            /\ UNCHANGED outcome
    /\ UNCHANGED <<boxes, blueSpheres, lastCall, lastPoint>>
    /\ GenUnchanged

\* OrnamentSystem's first useMemo
GenerateBoxes ==
    /\ pc = "boxes"
    /\ boxes' = GenBoxes(cfg, rng)
    /\ rng' = Advance(rng, 12 * cfg.boxCount)
    /\ pc' = "blue"
    /\ UNCHANGED <<foliage, blueSpheres, outcome, lastCall, lastPoint>>
    /\ GenUnchanged

\* OrnamentSystem's second useMemo
GenerateBlueSpheres ==
    /\ pc = "blue"
    /\ blueSpheres' = GenBlueSpheres(cfg, rng)
    /\ rng' = Advance(rng, 12 * cfg.blueCount)
    /\ pc' = "done"
    /\ outcome' = "ok"
    /\ UNCHANGED <<foliage, boxes, lastCall, lastPoint>>
    /\ GenUnchanged

GenNext == GenerateFoliage \/ GenerateBoxes \/ GenerateBlueSpheres

SpecGen == GenInit /\ [][GenNext]_vars

-----------------------------------------------------------------------------
(* randomOnTree as a function: direct calls with arbitrary arguments and
   arbitrary values of Math.random *)

CallHeights == {TREE_HEIGHT, TREE_HEIGHT - 50, 0, 0 - TREE_HEIGHT}

CallRadii == {TREE_RADIUS - 50, 0}

CallRatios == {0, 40, FP}

CallDraws == {0, 33, 99}

CallAngles == {0, 33}

\* a call randomOnTree(height, radiusBase, yMinRatio, yMaxRatio)
CallRandomOnTree ==
    /\ pc = "done"
    /\ \E h \in CallHeights, rb \in CallRadii, lo \in CallRatios, hi \in CallRatios,
          u1 \in CallDraws, u2 \in CallAngles :
          /\ lo <= hi
          /\ lastCall' = [height |-> h, radiusBase |-> rb, yMinRatio |-> lo, yMaxRatio |-> hi]
          /\ lastPoint' = randomOnTree(h, rb, lo, hi, u1, u2)
    /\ UNCHANGED <<foliage, boxes, blueSpheres, rng, pc, outcome>>
    /\ GenUnchanged

SpecTree == Init /\ [][CallRandomOnTree]_vars

-----------------------------------------------------------------------------
(* Properties *)

\* the target of the animation driver
Target == IF isTreeForm THEN FP ELSE 0

\* the step is a frame / a toggle
IsFrame == frames' = frames + 1

IsToggle == isTreeForm' # isTreeForm

\* x lies between a and b
Between(a, x, b) == (a <= x /\ x <= b) \/ (b <= x /\ x <= a)

Particles == DOMAIN foliage.treePos

\* C1: in every reachable state 0 <= progress <= 1, and the target is 0 or 1.
C1_ProgressInUnitRange ==
    /\ 0 <= progress
    /\ progress <= FP
    /\ Target \in {0, FP}

\* C2 (its safety part): from progress = 0 with the target held at 1, every
\* tick with one fixed dt leaves progress non-decreasing and inside [0, 1].
C2_MonotoneRamp ==
    [][(IsFrame /\ ramp'.on) =>
          (progress <= progress' /\ 0 <= progress' /\ progress' <= FP)]_vars

\* C3: a toggle leaves progress unchanged, and after the toggle 0 -> 1 and
\* after the toggle back before convergence every tick puts progress between
\* the previous progress and the current target.
C3_SmoothReversal ==
    [][/\ IsToggle => progress' = progress
       /\ (IsFrame /\ scenario \in {"forming", "reversing"}) =>
              Between(progress, progress', Target)]_vars

\* C4 as claimed: the shader's position is the scatter position at global
\* progress 0 and the tree position at global progress 1.
C4_EndpointsExact ==
    \A i \in Particles :
        /\ uProgress = 0 => finalPos[i] = foliage.scatterPos[i]
        /\ uProgress = FP => finalPos[i] = foliage.treePos[i]

\* C4 amended: the position is the scatter position at progress 0; at
\* progress 1 it is the tree position displaced by the breathing effect, at
\* most 0.05 on every axis, and exactly the tree position when breath is 0.
C4_EndpointsUpToBreath ==
    \A i \in Particles :
        /\ uProgress = 0 => finalPos[i] = foliage.scatterPos[i]
        /\ uProgress = FP =>
              /\ localProg[i] = FP
              /\ \A k \in 1..3 : Abs(finalPos[i][k] - foliage.treePos[i][k]) <= 5
              /\ Breath(uTime, foliage.randoms[i]) = 0 => finalPos[i] = foliage.treePos[i]

\* a draw at progress 1, at a clock time after start, in which the breathing
\* effect displaces one particle while breath is 0 for another
C4_Witness ==
    /\ uProgress = FP
    /\ uTime > 0
    /\ \E i \in Particles : /\ Breath(uTime, foliage.randoms[i]) # 0
                            /\ finalPos[i] # foliage.treePos[i]
    /\ \E i \in Particles : Breath(uTime, foliage.randoms[i]) = 0

\* C5 as claimed: of two particles the one lower on the tree reaches
\* localProgress = 1 at a global progress no greater than the higher one.
C5_LowerSettlesFirst ==
    \A i, j \in Particles :
        (foliage.treePos[i][2] < foliage.treePos[j][2] /\ settledAt[j] >= 0) =>
            (settledAt[i] >= 0 /\ settledAt[i] <= settledAt[j])

\* C5 amended: the higher particle starts later (its localProgress leaves 0 at
\* a global progress no smaller than the lower one's) and it is the higher
\* particle that reaches localProgress = 1 no later than the lower one.
C5_HigherStartsLaterSettlesFirst ==
    \A i, j \in Particles :
        foliage.treePos[i][2] < foliage.treePos[j][2] =>
            /\ startedAt[j] >= 0 => (startedAt[i] >= 0 /\ startedAt[i] <= startedAt[j])
            /\ settledAt[i] >= 0 => (settledAt[j] >= 0 /\ settledAt[j] <= settledAt[i])

\* a sweep in which the higher particle started strictly later and settled
\* strictly earlier than the lower one
C5_Witness ==
    \E i, j \in Particles :
        /\ foliage.treePos[i][2] < foliage.treePos[j][2]
        /\ startedAt[i] >= 0 /\ startedAt[i] < startedAt[j]
        /\ settledAt[j] >= 0 /\ settledAt[j] < settledAt[i]

Malformed(c) == c.radius < 0 \/ c.height <= 0 \/ c.particleCount <= 0

HasNaN(v) == \E k \in 1..3 : IsNaN(v[k])

PoolHasNaN ==
    \/ \E i \in DOMAIN foliage.treePos :
          HasNaN(foliage.treePos[i]) \/ HasNaN(foliage.scatterPos[i])
    \/ \E i \in DOMAIN boxes : HasNaN(boxes[i].treePos) \/ HasNaN(boxes[i].scatterPos)
    \/ \E i \in DOMAIN blueSpheres :
          HasNaN(blueSpheres[i].treePos) \/ HasNaN(blueSpheres[i].scatterPos)

\* C6: with a malformed configuration generation fails at once with an error,
\* and no pool ever holds a NaN coordinate.
C6_FailFast ==
    /\ (Malformed(cfg) /\ pc # "foliage") => pc = "failed"
    /\ ~PoolHasNaN

BlueArgs ==
    [height |-> TREE_HEIGHT, radiusBase |-> TREE_RADIUS - 50, yMinRatio |-> 0, yMaxRatio |-> 40]

Called == DOMAIN lastCall # {}

\* C7: for height > 0 and 0 <= yMinRatio <= yMaxRatio <= 1 the y of the point
\* lies in [height*yMinRatio - height/2, height*yMaxRatio - height/2]; for the
\* blue-sphere call (12, TREE_RADIUS - 0.5, 0, 0.4) every y is <= -1.2.
C7_TreeBand ==
    /\ (Called /\ lastCall.height > 0) =>
          /\ 2 * FP * lastPoint[2] >= 2 * lastCall.height * lastCall.yMinRatio - FP * lastCall.height
          /\ 2 * FP * lastPoint[2] <= 2 * lastCall.height * lastCall.yMaxRatio - FP * lastCall.height
    /\ (Called /\ lastCall = BlueArgs) => 10 * lastPoint[2] <= 0 - 12 * FP
    /\ \A i \in DOMAIN blueSpheres : 10 * blueSpheres[i].treePos[2] <= 0 - 12 * FP

\* a blue-sphere call whose random height is at the top of the band
C7_Witness ==
    /\ Called
    /\ lastCall = BlueArgs
    /\ 10 * lastPoint[2] > 0 - 13 * FP

\* C8: frames and toggles leave the foliage attribute arrays, every ornament's
\* treePos and scatterPos (and scale, speed, colour) and the pool sizes as
\* generated; only progress and the ornaments' currentPos change.
C8_AttributesFrozen ==
    [][/\ foliage' = foliage
       /\ DOMAIN boxes' = DOMAIN boxes
       /\ DOMAIN blueSpheres' = DOMAIN blueSpheres
       /\ \A i \in DOMAIN boxes :
             [boxes'[i] EXCEPT !.currentPos = boxes[i].currentPos] = boxes[i]
       /\ \A i \in DOMAIN blueSpheres :
             [blueSpheres'[i] EXCEPT !.currentPos = blueSpheres[i].currentPos] = blueSpheres[i]]_vars

\* frames ran in tree form and in scattered form: progress and every
\* ornament's currentPos have moved
C8_Witness ==
    /\ frames = MaxFrames
    /\ scenario = "reversing"
    /\ progress # 0
    /\ \A i \in DOMAIN boxes : boxes[i].currentPos # VecScale(boxes[i].scatterPos, OrnScale)
    /\ \A i \in DOMAIN blueSpheres :
          blueSpheres[i].currentPos # VecScale(blueSpheres[i].scatterPos, OrnScale)

\* C9 as claimed: from a progress different from the target no tick makes
\* progress equal to the target.
C9_NeverReachesTarget ==
    [][(IsFrame /\ progress # Target) => progress' # Target]_vars

\* C9 amended: a tick with dt * 1.5 = 1 puts progress exactly on the target;
\* a tick with dt * 1.5 < 1 keeps progress strictly short of the target,
\* between the previous progress and the target, as long as (1 - dt * 1.5)
\* times the remaining distance is at least one unit of the arithmetic.
C9_ReachesTargetOnlyAtFullStep ==
    [][(IsFrame /\ progress # Target) =>
          LET t == LerpFactor(lastDelta')
          IN  /\ t = FP => progress' = Target
              /\ (t < FP /\ (FP - t) * Abs(Target - progress) >= FP) =>
                    (progress' # Target /\ Between(progress, progress', Target))]_vars

\* a frame with dt = 2/3 s that took progress from 0 exactly to the target 1
C9_Witness ==
    /\ isTreeForm
    /\ frames = 1
    /\ lastDelta = 40
    /\ progress = FP

\* the parameter L with cur = s + (L / OrnScale) * (f - s), for one axis
AxisOnSegment(cur, s, f, L) ==
    LET c == cur - s * OrnScale
        d == f - s
    IN  IF d = 0 THEN c = 0
        ELSE IF d > 0 THEN c % d = 0 /\ c \div d = L
        ELSE (0 - c) % (0 - d) = 0 /\ (0 - c) \div (0 - d) = L

OnSegment(o) ==
    \E k \in 1..3 :
        LET d == o.treePos[k] - o.scatterPos[k]
            c == o.currentPos[k] - o.scatterPos[k] * OrnScale
            L == IF d = 0 THEN 0 ELSE IF d > 0 THEN c \div d ELSE (0 - c) \div (0 - d)
        IN  /\ 0 <= L
            /\ L <= OrnScale
            /\ \A m \in 1..3 : AxisOnSegment(o.currentPos[m], o.scatterPos[m], o.treePos[m], L)

Ornaments == {boxes[i] : i \in DOMAIN boxes} \cup {blueSpheres[i] : i \in DOMAIN blueSpheres}

\* C10: every ornament's currentPos lies on the closed segment from its
\* scatterPos to its treePos; it starts at scatterPos and its speed, the
\* fraction of the remaining distance covered per frame, is in [0.02, 0.07).
C10_OnSegment ==
    \A o \in Ornaments :
        /\ OnSegment(o)
        /\ frames = 0 => o.currentPos = VecScale(o.scatterPos, OrnScale)
        /\ 2 * SpeedDen <= FP * o.speed
        /\ FP * o.speed < 7 * SpeedDen

\* an ornament strictly inside its segment, pulled back towards scatterPos
\* after frames in tree form
C10_Witness ==
    /\ frames = MaxFrames
    /\ ~isTreeForm
    /\ scenario = "reversing"
    /\ \A o \in Ornaments :
          /\ o.currentPos # VecScale(o.scatterPos, OrnScale)
          /\ o.currentPos # VecScale(o.treePos, OrnScale)

====
